---- MODULE Spec2Model ----
(***************************************************************************)
(* Model of caffe::Net (src/src/net.cpp): graph assembly (Net::Init with   *)
(* AppendBottom / AppendTop), buffer life times, Net::MarkOutputs and the  *)
(* forward pass (Net::ForwardFromTo / ForwardFrom / ForwardTo).            *)
(*                                                                         *)
(* Layer ids and blob ids are 0-based as in the source; TLA+ sequences are *)
(* 1-based, so At(s, k) reads element k of a vector.                       *)
(*                                                                         *)
(* `param` is the description Net::Init walks (the local `param` of line   *)
(* 38, the output of InsertSplits).  It is supplied one layer at a time:   *)
(* InitLayer(lp) is one iteration of the loop of lines 50-77 on the next   *)
(* layer lp, so every description of at most MaxLayers layers over the     *)
(* bounded alphabets is walked.  The raw description FilterNet reads and   *)
(* the foreign description CopyTrainedLayersFrom reads are supplied the    *)
(* same way, one layer per iteration of the loop that reads them.          *)
(***************************************************************************)
EXTENDS Integers, Sequences, FiniteSets, TLC

\* ---------------------------------------------------------------- bounds
MaxLayers == 4
MaxBottom == 2
MaxTop == 2
MaxOuts == 1
MaxRawLayers == 2

\* blob names in std::string order (std::set iterates its keys in this
\* order)
NameOrder == <<"x", "y", "z">>

\* the names a caller may ask for
Names == {NameOrder[k] : k \in 1..Len(NameOrder)}

\* the names a description uses: the last of NameOrder is in no net
BlobNames == {NameOrder[k] : k \in 1..(Len(NameOrder) - 1)}

Types == {"Input", "ReLU"}

\* the type of the layers with learnable blobs
WeightType == "InnerProduct"

\* the layer name of the descriptions that differ in their wiring only
DefaultName == "l"

VARIABLES
  param,                    \* layers of the description walked so far
  layers_,                  \* type of every created layer
  blob_names_,              \* name of every blob
  blob_life_time_,          \* last layer index allowed to read every blob
  blobs_,                   \* storage of every blob: TRUE = allocated
  bottom_id_vecs_,          \* per layer, the blob ids of its bottoms
  top_id_vecs_,             \* per layer, the blob ids of its tops
  blob_name_to_idx,         \* local of Net::Init
  available_blobs,          \* local of Net::Init
  net_input_blob_indices_,
  net_output_blob_indices_,
  blob_names_index_,
  layer_names_,             \* name of every created layer
  layer_names_index_,
  layer_blobs,              \* per layer, layers_[i]->blobs(): [shape, data]
  param_id_vecs_,           \* per layer, the ids of its blobs in params_
  params_,                  \* per entry, <<layer id, index in the layer>>
                            \* of the learnable blob the entry points to
  param_display_names_,
  in_param,                 \* argument of Net::Init: the NetState and the
                            \* layers FilterNet has read so far
  filtered_param,           \* layers FilterNet has kept so far
  pc,                       \* "start", "filter", "init", "ready", "copy",
                            \* "fatal"
  err,                      \* message class of the LOG(FATAL) / CHECK hit
  ret,                      \* what the last call of a function with a
                            \* result returned
  trace,                    \* history: events of the last forward call
                            \* that ran the last layer
  before,                   \* history: layer_blobs when the running
                            \* CopyTrainedLayersFrom call began
  source_names              \* history: the names of the source layers the
                            \* running CopyTrainedLayersFrom call has read

vars == <<param, layers_, blob_names_, blob_life_time_, blobs_,
          bottom_id_vecs_, top_id_vecs_, blob_name_to_idx, available_blobs,
          net_input_blob_indices_, net_output_blob_indices_,
          blob_names_index_, layer_names_, layer_names_index_, layer_blobs,
          param_id_vecs_, params_, param_display_names_, in_param,
          filtered_param, pc, err, ret, trace, before, source_names>>

\* the parameter table and the name index of the layers
bindVars == <<layer_names_, layer_names_index_, param_id_vecs_, params_,
              param_display_names_>>

\* the arguments and the results of the calls, and the copy history
callVars == <<in_param, filtered_param, ret, before, source_names>>

graphVars == <<param, layers_, blob_names_, bottom_id_vecs_, top_id_vecs_,
               blob_name_to_idx, available_blobs, net_input_blob_indices_,
               net_output_blob_indices_, blob_names_index_, bindVars,
               layer_blobs, callVars>>

\* ---------------------------------------------------------------- helpers
At(s, k) == s[k + 1]

SetAt(s, k, v) == [s EXCEPT ![k + 1] = v]

Max(a, b) == IF a >= b THEN a ELSE b

Range(s) == {s[k] : k \in 1..Len(s)}

BoundedSeq(S, n) == UNION {[1..m -> S] : m \in 0..n}

\* The layers a description may hold.  An Input layer takes no bottom and
\* gives at least one top; a layer has a bottom or a top.
LayerParams ==
  {lp \in [type : Types,
           name : {DefaultName},
           bottom : BoundedSeq(BlobNames, MaxBottom),
           top : BoundedSeq(BlobNames, MaxTop),
           param : {<<>>},
           blobs : {<<>>}] :
     /\ lp.type = "Input" => (lp.bottom = <<>> /\ lp.top # <<>>)
     /\ Len(lp.bottom) + Len(lp.top) >= 1}

EmptyMap == [n \in {} |-> 0]

NoError == <<>>

\* the texts of the LOG(FATAL) and CHECK messages
UnknownMessage == "Unknown bottom blob"

DuplicateMessage == "Top blob produced by multiple sources"

FirstLayerMessage == "Network's first layer should be Input Layer."

StartMessage == "Check failed: start >= 0"

EndMessage == "Check failed: end < layers_.size()"

\* ------------------------------------------------- Net::AppendBottom
\* faulty variant: the name is looked up among all names that have a blob
UnknownBottom_everProduced(w, blob_name) ==
  blob_name \notin DOMAIN w.blob_name_to_idx

\* line 237: the name is not in available_blobs
UnknownBottom(w, blob_name) == blob_name \notin w.available_blobs

\* faulty variant: the reader's index is taken one too high
BottomLifeTime_late(life, layer_id) == Max(life, layer_id + 1)

\* line 244
BottomLifeTime(life, layer_id) == Max(life, layer_id)

\* One call AppendBottom(param, layer_id, bottom_id, ...) on the walk state w
\* (the members and the two locals of Net::Init the helper touches).
AppendBottom(w, layer_param, layer_id, bottom_id) ==
  LET blob_name == At(layer_param.bottom, bottom_id) IN
  IF UnknownBottom(w, blob_name)
  THEN [w EXCEPT !.err = <<UnknownMessage, blob_name, layer_id, bottom_id>>]
  ELSE LET blob_id == w.blob_name_to_idx[blob_name] IN
       [w EXCEPT !.bottom_ids = Append(@, blob_id),
                 !.blob_life_time_ =
                    SetAt(@, blob_id, BottomLifeTime(At(@, blob_id), layer_id)),
                 !.available_blobs = @ \ {blob_name}]

\* ---------------------------------------------------- Net::AppendTop
\* faulty variant: the name is searched among all bottoms of the layer
InPlace_anyPosition(layer_param, top_id) ==
  At(layer_param.top, top_id) \in Range(layer_param.bottom)

\* lines 204-205: the top has the name of the bottom at the same position
InPlace(layer_param, top_id) ==
  /\ Len(layer_param.bottom) > top_id
  /\ At(layer_param.top, top_id) = At(layer_param.bottom, top_id)

\* line 207: the blob an in-place top is bound to
InPlaceBlobId(w, blob_name) == w.blob_name_to_idx[blob_name]

\* faulty variant: the life time ends at the layer that updates the blob
InPlaceLifeTime_same(life, layer_id) == Max(life, layer_id)

\* line 210
InPlaceLifeTime(life, layer_id) == Max(life, layer_id + 1)

\* faulty variant: the name is looked up among the available names only
DuplicateTop_available(w, blob_name) == blob_name \in w.available_blobs

\* lines 211-212: the name already has a blob
DuplicateTop(w, blob_name) == blob_name \in DOMAIN w.blob_name_to_idx

\* line 223
NewLifeTime(layer_id) == layer_id + 1

AppendTop(w, layer_param, layer_id, top_id) ==
  LET blob_name == At(layer_param.top, top_id) IN
  IF InPlace(layer_param, top_id)
  THEN LET blob_id == InPlaceBlobId(w, blob_name) IN
       [w EXCEPT !.top_ids = Append(@, blob_id),
                 !.blob_life_time_ =
                    SetAt(@, blob_id, InPlaceLifeTime(At(@, blob_id), layer_id)),
                 !.available_blobs = @ \cup {blob_name}]
  ELSE IF DuplicateTop(w, blob_name)
  THEN [w EXCEPT !.err = <<DuplicateMessage, blob_name,
                           layer_id, top_id>>]
  ELSE LET blob_id == Len(w.blob_names_) IN
       [w EXCEPT !.blob_names_ = Append(@, blob_name),
                 !.blobs_ = Append(@, TRUE),
                 !.blob_life_time_ = Append(@, NewLifeTime(layer_id)),
                 !.blob_name_to_idx = (blob_name :> blob_id) @@ @,
                 !.top_ids = Append(@, blob_id),
                 !.available_blobs = @ \cup {blob_name}]

\* lines 64-68: every top of an Input layer is recorded as a net input, by
\* the id of the blob created last
CollectInput(w, layer_param) ==
  IF layer_param.type = "Input"
  THEN [w EXCEPT !.net_input_blob_indices_ = Append(@, Len(w.blob_names_) - 1)]
  ELSE w

\* lines 57-59: the loop over the bottoms, from bottom_id on; a LOG(FATAL)
\* ends the walk
RECURSIVE AppendBottoms(_, _, _, _)
AppendBottoms(w, layer_param, layer_id, bottom_id) ==
  IF bottom_id >= Len(layer_param.bottom) \/ w.err # NoError
  THEN w
  ELSE AppendBottoms(AppendBottom(w, layer_param, layer_id, bottom_id),
                     layer_param, layer_id, bottom_id + 1)

\* lines 61-69: the loop over the tops, from top_id on
RECURSIVE AppendTops(_, _, _, _)
AppendTops(w, layer_param, layer_id, top_id) ==
  IF top_id >= Len(layer_param.top) \/ w.err # NoError
  THEN w
  ELSE LET w1 == AppendTop(w, layer_param, layer_id, top_id) IN
       AppendTops(IF w1.err # NoError THEN w1 ELSE CollectInput(w1, layer_param),
                  layer_param, layer_id, top_id + 1)

\* lines 50-71: one iteration of the layer loop of Net::Init
WalkLayer(w, layer_param, layer_id) ==
  AppendTops(AppendBottoms(w, layer_param, layer_id, 0), layer_param, layer_id, 0)

\* ---------------------------------------------------- Net::AppendParam
\* the data of a learnable blob no load has written
InitialData == "initial"

\* lines 53, 71: the learnable blobs the created layer holds after SetUp,
\* of the shapes its description asks for
CreateBlobs(layer_param) ==
  [k \in 1..Len(layer_param.blobs) |->
     [shape |-> layer_param.blobs[k], data |-> InitialData]]

\* faulty variant: the explicit name of the entry before is read
ExplicitName_shifted(layer_param, param_id) ==
  IF Len(layer_param.param) > param_id /\ param_id >= 1
  THEN At(layer_param.param, param_id - 1)
  ELSE ""

\* lines 252-254: the name the description gives the entry, "" if none
ExplicitName(layer_param, param_id) ==
  IF Len(layer_param.param) > param_id
  THEN At(layer_param.param, param_id)
  ELSE ""

\* lines 259-261: the layer name, "_" and the index in decimal
DefaultDisplayName(layer_name, param_id) ==
  layer_name \o "_" \o ToString(param_id)

\* lines 253-262
DisplayName(layer_param, param_id) ==
  LET param_name == ExplicitName(layer_param, param_id) IN
  IF param_name # ""
  THEN param_name
  ELSE DefaultDisplayName(layer_param.name, param_id)

\* one call AppendParam(param, layer_id, param_id) on the walk state w
AppendParam(w, layer_param, layer_id, param_id) ==
  LET net_param_id == Len(w.params_) IN
  [w EXCEPT !.param_display_names_ =
               Append(@, DisplayName(layer_param, param_id)),
            !.params_ = Append(@, <<layer_id, param_id>>),
            !.param_ids = Append(@, net_param_id)]

\* lines 73-76: the loop over the learnable blobs of the layer, from
\* param_id on
RECURSIVE AppendParams(_, _, _, _)
AppendParams(w, layer_param, layer_id, param_id) ==
  IF param_id >= Len(layer_param.blobs) \/ w.err # NoError
  THEN w
  ELSE AppendParams(AppendParam(w, layer_param, layer_id, param_id),
                    layer_param, layer_id, param_id + 1)

\* lines 50-76: one iteration of the layer loop with the parameters bound
BindLayer(w, layer_param, layer_id) ==
  AppendParams(WalkLayer(w, layer_param, layer_id), layer_param, layer_id, 0)

\* the walk state before layer layer_id
WalkState ==
  [blob_names_ |-> blob_names_, blobs_ |-> blobs_,
   blob_life_time_ |-> blob_life_time_,
   blob_name_to_idx |-> blob_name_to_idx,
   available_blobs |-> available_blobs,
   net_input_blob_indices_ |-> net_input_blob_indices_,
   params_ |-> params_, param_display_names_ |-> param_display_names_,
   bottom_ids |-> <<>>, top_ids |-> <<>>, param_ids |-> <<>>,
   err |-> NoError]

\* ------------------------------------------------------------ NetState
Phases == {"TRAIN", "TEST"}

\* the NetState the constructor of line 24 sets up: phase TEST
TestState == [phase |-> "TEST", level |-> 0, stage |-> <<>>]

\* no raw description: the layers of param are given as Net::Init has them
\* after FilterNet and InsertSplits (line 39)
NoRawParam == [state |-> TestState, layer |-> <<>>]

NoReturn == <<>>

\* the members of the net and the history: what a step before Net::Init
\* walks the description leaves as constructed
netVars == <<param, layers_, blob_names_, blob_life_time_, blobs_,
             bottom_id_vecs_, top_id_vecs_, blob_name_to_idx,
             available_blobs, net_input_blob_indices_,
             net_output_blob_indices_, blob_names_index_, bindVars,
             layer_blobs, trace, before, source_names>>

\* ------------------------------------------------------ StateMeetsRule
Stages == {"train", "test"}

\* the stage lists of a NetState and of a rule: up to two stages
StageLists ==
  {<<>>} \cup {<<a>> : a \in Stages} \cup {<<a, b>> : a \in Stages, b \in Stages}

Levels == {0, 1, 2}

RuleLevels == {0, 1}

NetStates == [phase : Phases, level : Levels, stage : StageLists]

\* A NetStateRule: an optional field that is not set reads as its default.
NetStateRules ==
  {rule \in [has_phase : BOOLEAN, phase : Phases,
             has_min_level : BOOLEAN, min_level : RuleLevels,
             has_max_level : BOOLEAN, max_level : RuleLevels,
             stage : StageLists, not_stage : StageLists] :
     /\ ~rule.has_phase => rule.phase = "TRAIN"
     /\ ~rule.has_min_level => rule.min_level = 0
     /\ ~rule.has_max_level => rule.max_level = 0}

\* faulty variant: a level equal to the minimum breaks the rule
BelowMin_orEqual(level, min_level) == level <= min_level

\* line 115
BelowMin(level, min_level) == level < min_level

\* line 125
AboveMax(level, max_level) == level > max_level

\* lines 137-140 and 152-155: the search of a stage name in the stages of
\* the state, from j on
RECURSIVE HasStage(_, _, _)
HasStage(state, stage_name, j) ==
  IF j >= Len(state.stage) THEN FALSE
  ELSE IF stage_name = At(state.stage, j) THEN TRUE
  ELSE HasStage(state, stage_name, j + 1)

\* lines 135-147, from stage i of the rule on: FALSE at the first stage
\* the state does not contain
RECURSIVE StagesMet(_, _, _)
StagesMet(state, rule, i) ==
  IF i >= Len(rule.stage) THEN TRUE
  ELSE IF ~HasStage(state, At(rule.stage, i), 0) THEN FALSE
  ELSE StagesMet(state, rule, i + 1)

\* lines 150-162, from not_stage i of the rule on: FALSE at the first
\* not_stage the state contains
RECURSIVE NotStagesMet(_, _, _)
NotStagesMet(state, rule, i) ==
  IF i >= Len(rule.not_stage) THEN TRUE
  ELSE IF HasStage(state, At(rule.not_stage, i), 0) THEN FALSE
  ELSE NotStagesMet(state, rule, i + 1)

\* lines 101-164
StateMeetsRule(state, rule) ==
  IF rule.has_phase /\ rule.phase # state.phase THEN FALSE
  ELSE IF rule.has_min_level /\ BelowMin(state.level, rule.min_level)
  THEN FALSE
  ELSE IF rule.has_max_level /\ AboveMax(state.level, rule.max_level)
  THEN FALSE
  ELSE IF ~StagesMet(state, rule, 0) THEN FALSE
  ELSE NotStagesMet(state, rule, 0)

\* a raw layer with the rule as its one include rule
RuleLayer(rule) ==
  [name |-> DefaultName, include |-> <<rule>>, exclude |-> <<>>]

\* a call StateMeetsRule(state, rule, layer_name) on the state of in_param
\* and the first include rule of its first layer
StateMeetsRuleCall ==
  /\ pc = "start"
  /\ Len(in_param.layer) >= 1
  /\ Len(At(in_param.layer, 0).include) >= 1
  /\ LET rule == At(At(in_param.layer, 0).include, 0) IN
     ret' = [op |-> "StateMeetsRule", name |-> rule,
             val |-> StateMeetsRule(in_param.state, rule)]
  /\ UNCHANGED <<netVars, in_param, filtered_param, pc, err>>

\* ------------------------------------------------------ Net::FilterNet
PhaseMessage == "Check failed: in_param.state().phase() == TEST"

BothMessage == "Specify either include rules or exclude rules; not both."

\* line 29
InitCheck ==
  /\ pc = "start"
  /\ IF in_param.state.phase # "TEST"
     THEN pc' = "fatal" /\ err' = <<PhaseMessage>>
     ELSE pc' = "filter" /\ err' = err
  /\ UNCHANGED <<netVars, in_param, filtered_param, ret>>

\* faulty variant: a layer with both kinds of rules passes
RulesLegal_always(layer_param) == TRUE

\* line 174
RulesLegal(layer_param) ==
  Len(layer_param.include) = 0 \/ Len(layer_param.exclude) = 0

\* faulty variant: a layer is included whatever rules it has
IncludedByDefault_always(layer_param) == TRUE

\* line 178
IncludedByDefault(layer_param) == Len(layer_param.include) = 0

\* lines 179-183: the loop over the exclude rules from j on
RECURSIVE ExcludeLoop(_, _, _, _)
ExcludeLoop(state, layer_param, layer_included, j) ==
  IF ~(layer_included /\ j < Len(layer_param.exclude))
  THEN layer_included
  ELSE ExcludeLoop(state, layer_param,
                   IF StateMeetsRule(state, At(layer_param.exclude, j))
                   THEN FALSE ELSE layer_included,
                   j + 1)

\* lines 184-188: the loop over the include rules from j on
RECURSIVE IncludeLoop(_, _, _, _)
IncludeLoop(state, layer_param, layer_included, j) ==
  IF ~(~layer_included /\ j < Len(layer_param.include))
  THEN layer_included
  ELSE IncludeLoop(state, layer_param,
                   IF StateMeetsRule(state, At(layer_param.include, j))
                   THEN TRUE ELSE layer_included,
                   j + 1)

\* lines 178-188
LayerIncluded(state, layer_param) ==
  IncludeLoop(state, layer_param,
              ExcludeLoop(state, layer_param,
                          IncludedByDefault(layer_param), 0),
              0)

\* lines 171-192 for the next layer of the raw description.  The CHECK of
\* line 174 aborts the process: in_param keeps the layers read before.
FilterLayer(layer_param) ==
  /\ pc = "filter"
  /\ Len(in_param.layer) < MaxRawLayers
  /\ IF ~RulesLegal(layer_param)
     THEN /\ pc' = "fatal"
          /\ err' = <<BothMessage>>
          /\ UNCHANGED <<in_param, filtered_param>>
     ELSE /\ in_param' = [in_param EXCEPT !.layer = Append(@, layer_param)]
          /\ filtered_param' =
               IF LayerIncluded(in_param.state, layer_param)
               THEN Append(filtered_param, layer_param)
               ELSE filtered_param
          /\ UNCHANGED <<pc, err>>
  /\ UNCHANGED <<netVars, ret>>

\* line 193: the raw description has no more layers; InsertSplits (line
\* 39) is the next step of Net::Init
FilterEnd ==
  /\ pc = "filter"
  /\ pc' = "filtered"
  /\ UNCHANGED <<netVars, in_param, filtered_param, err, ret>>

\* ---------------------------------------------------------- Net::Init
Init ==
  /\ param = <<>>
  /\ layers_ = <<>>
  /\ blob_names_ = <<>>
  /\ blob_life_time_ = <<>>
  /\ blobs_ = <<>>
  /\ bottom_id_vecs_ = <<>>
  /\ top_id_vecs_ = <<>>
  /\ blob_name_to_idx = EmptyMap
  /\ available_blobs = {}
  /\ net_input_blob_indices_ = <<>>
  /\ net_output_blob_indices_ = <<>>
  /\ blob_names_index_ = EmptyMap
  /\ layer_names_ = <<>>
  /\ layer_names_index_ = EmptyMap
  /\ layer_blobs = <<>>
  /\ param_id_vecs_ = <<>>
  /\ params_ = <<>>
  /\ param_display_names_ = <<>>
  /\ in_param = NoRawParam
  /\ filtered_param = <<>>
  /\ pc = "init"
  /\ err = NoError
  /\ ret = NoReturn
  /\ trace = <<>>
  /\ before = <<>>
  /\ source_names = {}

historyUnchanged == UNCHANGED <<trace, before, source_names>>

\* the net as constructed, before Net::Init is called with raw
InitWith(raw) ==
  /\ param = <<>>
  /\ layers_ = <<>>
  /\ blob_names_ = <<>>
  /\ blob_life_time_ = <<>>
  /\ blobs_ = <<>>
  /\ bottom_id_vecs_ = <<>>
  /\ top_id_vecs_ = <<>>
  /\ blob_name_to_idx = EmptyMap
  /\ available_blobs = {}
  /\ net_input_blob_indices_ = <<>>
  /\ net_output_blob_indices_ = <<>>
  /\ blob_names_index_ = EmptyMap
  /\ layer_names_ = <<>>
  /\ layer_names_index_ = EmptyMap
  /\ layer_blobs = <<>>
  /\ param_id_vecs_ = <<>>
  /\ params_ = <<>>
  /\ param_display_names_ = <<>>
  /\ in_param = raw
  /\ filtered_param = <<>>
  /\ pc = "start"
  /\ err = NoError
  /\ ret = NoReturn
  /\ trace = <<>>
  /\ before = <<>>
  /\ source_names = {}

\* lines 50-77 for the next layer of the description.  A LOG(FATAL) of a
\* helper aborts the process: the members keep what they held before the
\* layer and err holds the message.
InitLayer(layer_param) ==
  /\ pc = "init"
  /\ Len(param) < MaxLayers
  /\ LET layer_id == Len(param)
         w == BindLayer(WalkState, layer_param, layer_id) IN
     IF w.err # NoError
     THEN /\ pc' = "fatal"
          /\ err' = w.err
          /\ UNCHANGED <<graphVars, blob_life_time_, blobs_>>
     ELSE /\ param' = Append(param, layer_param)
          /\ layers_' = Append(layers_, layer_param.type)
          /\ blob_names_' = w.blob_names_
          /\ blobs_' = w.blobs_
          /\ blob_life_time_' = w.blob_life_time_
          /\ blob_name_to_idx' = w.blob_name_to_idx
          /\ available_blobs' = w.available_blobs
          /\ net_input_blob_indices_' = w.net_input_blob_indices_
          /\ bottom_id_vecs_' = Append(bottom_id_vecs_, w.bottom_ids)
          /\ top_id_vecs_' = Append(top_id_vecs_, w.top_ids)
          /\ layer_names_' = Append(layer_names_, layer_param.name)
          /\ layer_blobs' = Append(layer_blobs, CreateBlobs(layer_param))
          /\ params_' = w.params_
          /\ param_display_names_' = w.param_display_names_
          /\ param_id_vecs_' = Append(param_id_vecs_, w.param_ids)
          /\ UNCHANGED <<net_output_blob_indices_, blob_names_index_,
                         layer_names_index_, in_param, filtered_param, ret,
                         pc, err>>
  /\ historyUnchanged

\* faulty variant: the type of the last layer is checked
FirstLayerIsInput_last(layers) == At(layers, Len(layers) - 1) = "Input"

\* line 78
FirstLayerIsInput(layers) == At(layers, 0) = "Input"

\* faulty variant: every name that has a blob is listed
OutputIndices_all(avail, map) ==
  LET names == SelectSeq(NameOrder, LAMBDA n : n \in DOMAIN map) IN
  [k \in 1..Len(names) |-> map[names[k]]]

\* lines 82-87: std::set iterates the available names in string order
OutputIndices(avail, map) ==
  LET names == SelectSeq(NameOrder, LAMBDA n : n \in avail) IN
  [k \in 1..Len(names) |-> map[names[k]]]

\* faulty variant: the index of the last layer instead of the number of layers
HoldLifeTime_last(layers) == Len(layers) - 1

\* line 90 and line 355: the life time of a blob held to the end of the net
HoldLifeTime(layers) == Len(layers)

\* lines 89-91
HoldInputs(life, top_ids, layers) ==
  [k \in 1..Len(life) |->
     IF (k - 1) \in Range(top_ids) THEN HoldLifeTime(layers) ELSE life[k]]

\* lines 92-97: a later entry of the same name overwrites the entry
NamesIndex(names) ==
  [n \in Range(names) |->
     CHOOSE id \in 0..(Len(names) - 1) :
       /\ At(names, id) = n
       /\ \A id2 \in 0..(Len(names) - 1) : At(names, id2) = n => id2 <= id]

\* lines 78-97, after the last layer of the description (a description has
\* at least one layer: layers_[0] is read)
InitFinish ==
  /\ pc = "init"
  /\ Len(param) >= 1
  /\ IF ~FirstLayerIsInput(layers_)
     THEN /\ pc' = "fatal"
          /\ err' = <<FirstLayerMessage>>
          /\ UNCHANGED <<graphVars, blob_life_time_, blobs_>>
     ELSE /\ pc' = "ready"
          /\ net_output_blob_indices_' =
               OutputIndices(available_blobs, blob_name_to_idx)
          /\ blob_life_time_' =
               HoldInputs(blob_life_time_, At(top_id_vecs_, 0), layers_)
          /\ blob_names_index_' = NamesIndex(blob_names_)
          /\ layer_names_index_' = NamesIndex(layer_names_)
          /\ blob_name_to_idx' = EmptyMap
          /\ available_blobs' = {}
          /\ UNCHANGED <<param, layers_, blob_names_, blobs_, bottom_id_vecs_,
                         top_id_vecs_, net_input_blob_indices_, layer_names_,
                         layer_blobs, param_id_vecs_, params_,
                         param_display_names_, in_param, filtered_param, ret,
                         err>>
  /\ historyUnchanged

\* --------------------------------------------------- Net::MarkOutputs
\* lines 349-356 from element k of outs on; r = [life, err]
RECURSIVE MarkLoop(_, _, _)
MarkLoop(r, outs, k) ==
  IF k > Len(outs) \/ r.err # NoError
  THEN r
  ELSE LET name == outs[k] IN
       IF name \notin DOMAIN blob_names_index_
       THEN [r EXCEPT !.err = <<"blob is not availiable in Net", name>>]
       ELSE LET blob_id == blob_names_index_[name] IN
            MarkLoop([r EXCEPT !.life = SetAt(@, blob_id, HoldLifeTime(layers_))],
                     outs, k + 1)

MarkOutputs(outs) ==
  /\ pc = "ready"
  /\ LET r == MarkLoop([life |-> blob_life_time_, err |-> NoError],
                       outs, 1) IN
     /\ blob_life_time_' = r.life
     /\ err' = r.err
     /\ pc' = IF r.err # NoError THEN "fatal" ELSE "ready"
  /\ UNCHANGED <<graphVars, blobs_, trace>>

\* ------------------------------------------------- Net::ForwardFromTo
\* faulty variant: an end equal to the size passes
LessThanSize_orEqual(end, size) == end >= 0 /\ end <= size

\* line 283 compares the int end with the size_t layers_.size(): end is
\* converted to size_t, and a negative end becomes a value above any size
LessThanSize(end, size) == end >= 0 /\ end < size

\* lines 282-283: the message of the CHECK that fails, NoError if none does
RangeCheck(start, end, size) ==
  IF ~(start >= 0) THEN <<StartMessage>>
  ELSE IF ~LessThanSize(end, size) THEN <<EndMessage>>
  ELSE NoError

\* faulty variant: the life time is compared one layer early
ReleaseDue_early(life, i) == life <= i + 1

\* line 292
ReleaseDue(life, i) == life <= i

\* lines 291-295: the bottoms of layer i released after it ran, in order
ReleasedBy(i) ==
  SelectSeq(At(bottom_id_vecs_, i),
            LAMBDA b : ReleaseDue(At(blob_life_time_, b), i))

\* line 288: the layer reads its bottoms; the read is sound when the storage
\* of each is allocated
BottomsAllocated(blobs, i) ==
  \A b \in Range(At(bottom_id_vecs_, i)) : At(blobs, b)

\* lines 288-295: storage after layer i ran (its tops are written) and its
\* expired bottoms were released
BlobsAfter(blobs, i) ==
  LET released == Range(ReleasedBy(i))
      written == Range(At(top_id_vecs_, i)) IN
  [k \in 1..Len(blobs) |->
     IF (k - 1) \in released THEN FALSE
     ELSE IF (k - 1) \in written THEN TRUE
     ELSE blobs[k]]

\* events of iteration i, for the history variable trace
EventsOf(blobs, i) ==
  LET released == ReleasedBy(i) IN
  <<[ev |-> "Forward", layer |-> i, blob |-> -1,
     ok |-> BottomsAllocated(blobs, i)]>>
  \o [k \in 1..Len(released) |->
        [ev |-> "Release", layer |-> i, blob |-> released[k], ok |-> TRUE]]

\* faulty variant: the loop stops before layer end
LoopContinues_exclusive(i, end) == i < end

\* line 285: the condition of the loop
LoopContinues(i, end) == i <= end

\* lines 285-296: the loop from i on; r = [blobs, trace].  The CHECKs of
\* lines 282-283 keep i inside layers_; an index outside the vector would be
\* an out-of-bounds read, logged as such, and the loop is not followed further.
RECURSIVE ForwardLoop(_, _, _)
ForwardLoop(r, i, end) ==
  IF ~LoopContinues(i, end)
  THEN r
  ELSE IF i < 0 \/ i >= Len(layers_)
  THEN [r EXCEPT !.trace = Append(@, [ev |-> "OutOfBounds", layer |-> i,
                                      blob |-> -1, ok |-> FALSE])]
  ELSE ForwardLoop([blobs |-> BlobsAfter(r.blobs, i),
                    trace |-> r.trace \o EventsOf(r.blobs, i)],
                   i + 1, end)

\* lines 281-297: what ForwardFromTo(start, end) leaves, called in the
\* current state: a failed CHECK aborts before the loop
ForwardFromToResult(start, end) ==
  LET e == RangeCheck(start, end, Len(layers_)) IN
  IF e # NoError
  THEN [pc |-> "fatal", err |-> e, blobs |-> blobs_, trace |-> <<>>]
  ELSE LET r == ForwardLoop([blobs |-> blobs_, trace |-> <<>>], start, end) IN
       [pc |-> "ready", err |-> err, blobs |-> r.blobs, trace |-> r.trace]

\* the history keeps the log of a call that ran the last layer of the net
Logged(tr) ==
  IF tr # <<>> /\ tr[Len(tr)].layer = Len(layers_) - 1 THEN tr ELSE <<>>

\* a forward call that leaves res
Forwarded(res) ==
  /\ pc = "ready"
  /\ pc' = res.pc
  /\ err' = res.err
  /\ blobs_' = res.blobs
  /\ trace' = Logged(res.trace)
  /\ UNCHANGED <<graphVars, blob_life_time_>>

ForwardFromTo(start, end) == Forwarded(ForwardFromToResult(start, end))

\* faulty variant: the size instead of the last index
ForwardFromEnd_size(size) == size

\* line 300
ForwardFromEnd(size) == size - 1

\* lines 299-301
ForwardFromResult(start) ==
  ForwardFromToResult(start, ForwardFromEnd(Len(layers_)))

ForwardFrom(start) == Forwarded(ForwardFromResult(start))

\* line 304
ForwardToStart == 0

\* lines 303-305
ForwardToResult(end) == ForwardFromToResult(ForwardToStart, end)

ForwardTo(end) == Forwarded(ForwardToResult(end))

\* ------------------------------------------ Net::CopyTrainedLayersFrom
CountMessage == "Incompatible number of blobs for layer"

ShapeMessage == "Cannot copy param weights; shape mismatch"

\* faulty variant: the search stops at the last layer, which is taken for a
\* layer of the name
RECURSIVE TargetLayerId_stopsAtLast(_, _, _)
TargetLayerId_stopsAtLast(names, source_layer_name, target_layer_id) ==
  IF target_layer_id # Len(names) - 1
       /\ At(names, target_layer_id) # source_layer_name
  THEN TargetLayerId_stopsAtLast(names, source_layer_name,
                                 target_layer_id + 1)
  ELSE target_layer_id

\* lines 318-322: the linear search from target_layer_id on; the number of
\* layers if no layer has the name
RECURSIVE TargetLayerId(_, _, _)
TargetLayerId(names, source_layer_name, target_layer_id) ==
  IF target_layer_id # Len(names)
       /\ At(names, target_layer_id) # source_layer_name
  THEN TargetLayerId(names, source_layer_name, target_layer_id + 1)
  ELSE target_layer_id

\* faulty variant: a source layer with more blobs than the target passes
SameCount_atLeast(target_blobs, source_layer) ==
  Len(target_blobs) <= Len(source_layer.blobs)

\* line 328
SameCount(target_blobs, source_layer) ==
  Len(target_blobs) = Len(source_layer.blobs)

\* faulty variant: every shape is accepted
ShapeEquals_always(blob, source_blob) == TRUE

\* line 331
ShapeEquals(blob, source_blob) == blob.shape = source_blob.shape

\* line 343: FromProto without reshape copies the data, the shape stays
FromProto(blob, source_blob) == [blob EXCEPT !.data = source_blob.data]

\* lines 330-344: the loop over the blobs of the target layer from j on;
\* r = [blobs, err], a LOG(FATAL) ends it
RECURSIVE CopyBlobs(_, _, _)
CopyBlobs(r, source_layer, j) ==
  IF j >= Len(r.blobs) \/ r.err # NoError
  THEN r
  ELSE IF ~ShapeEquals(At(r.blobs, j), At(source_layer.blobs, j))
  THEN [r EXCEPT !.err = <<ShapeMessage, source_layer.name, j>>]
  ELSE CopyBlobs([r EXCEPT !.blobs =
                     SetAt(@, j, FromProto(At(@, j), At(source_layer.blobs, j)))],
                 source_layer, j + 1)

\* lines 316-344: one iteration of the loop over the source layers, on the
\* learnable blobs `blobs` of all layers
CopyLayerResult(blobs, source_layer) ==
  LET target_layer_id == TargetLayerId(layer_names_, source_layer.name, 0) IN
  IF target_layer_id = Len(layer_names_)
  THEN [blobs |-> blobs, err |-> NoError]
  ELSE IF ~SameCount(At(blobs, target_layer_id), source_layer)
  THEN [blobs |-> blobs, err |-> <<CountMessage, source_layer.name>>]
  ELSE LET r == CopyBlobs([blobs |-> At(blobs, target_layer_id),
                           err |-> NoError], source_layer, 0) IN
       [blobs |-> SetAt(blobs, target_layer_id, r.blobs), err |-> r.err]

\* what a copy step leaves alone
wiringVars == <<param, layers_, blob_names_, bottom_id_vecs_, top_id_vecs_,
                blob_name_to_idx, available_blobs, net_input_blob_indices_,
                net_output_blob_indices_, blob_names_index_, bindVars,
                blob_life_time_, blobs_, in_param, filtered_param, ret,
                trace>>

\* line 313: a call of CopyTrainedLayersFrom begins
CopyBegin ==
  /\ pc = "ready"
  /\ pc' = "copy"
  /\ before' = layer_blobs
  /\ source_names' = {}
  /\ UNCHANGED <<wiringVars, layer_blobs, err>>

\* lines 315-345 for the next layer of the source description
CopyLayer(source_layer) ==
  /\ pc = "copy"
  /\ LET res == CopyLayerResult(layer_blobs, source_layer) IN
     /\ layer_blobs' = res.blobs
     /\ err' = res.err
     /\ pc' = IF res.err # NoError THEN "fatal" ELSE "copy"
  /\ source_names' = source_names \cup {source_layer.name}
  /\ UNCHANGED <<wiringVars, before>>

\* line 346: the source description has no more layers
CopyEnd ==
  /\ pc = "copy"
  /\ pc' = "ready"
  /\ before' = <<>>
  /\ source_names' = {}
  /\ UNCHANGED <<wiringVars, layer_blobs, err>>

\* ------------------------------------------------------ the name index
UnknownBlobMessage == "Unknown blob name"

UnknownLayerMessage == "Unknown layer name"

\* lines 376 and 387: the name is a key of the index
HasName(index, name) == name \in DOMAIN index

\* a call of a function with a result returns val
Returned(op, name, val) ==
  /\ pc = "ready"
  /\ ret' = [op |-> op, name |-> name, val |-> val]
  /\ UNCHANGED <<param, layers_, blob_names_, bottom_id_vecs_, top_id_vecs_,
                 blob_name_to_idx, available_blobs, net_input_blob_indices_,
                 net_output_blob_indices_, blob_names_index_, bindVars,
                 layer_blobs, in_param, filtered_param, before,
                 source_names,
                 blob_life_time_, blobs_, trace, pc, err>>

\* a CHECK of a function with a result failed: the process aborts, nothing
\* is returned
Aborted(message) ==
  /\ pc = "ready"
  /\ pc' = "fatal"
  /\ err' = message
  /\ ret' = NoReturn
  /\ UNCHANGED <<param, layers_, blob_names_, bottom_id_vecs_, top_id_vecs_,
                 blob_name_to_idx, available_blobs, net_input_blob_indices_,
                 net_output_blob_indices_, blob_names_index_, bindVars,
                 layer_blobs, in_param, filtered_param, before,
                 source_names,
                 blob_life_time_, blobs_, trace>>

\* lines 375-377
has_blob(blob_name) ==
  Returned("has_blob", blob_name, HasName(blob_names_index_, blob_name))

\* lines 379-384: the result is the blob the index gives, by its id
blob_by_name(blob_name) ==
  IF HasName(blob_names_index_, blob_name)
  THEN Returned("blob_by_name", blob_name, blob_names_index_[blob_name])
  ELSE Aborted(<<UnknownBlobMessage, blob_name>>)

\* lines 386-388
has_layer(layer_name) ==
  Returned("has_layer", layer_name, HasName(layer_names_index_, layer_name))

\* lines 390-395: the result is the layer the index gives, by its id
layer_by_name(layer_name) ==
  IF HasName(layer_names_index_, layer_name)
  THEN Returned("layer_by_name", layer_name, layer_names_index_[layer_name])
  ELSE Aborted(<<UnknownLayerMessage, layer_name>>)

\* ---------------------------------------------------------------- system
\* the names of the layers of the nets the copy is explored on, and of the
\* source layers: the last is the name of no layer of a net
InputName == "a"

WeightNames == {"b", "c"}

SourceNames == WeightNames \cup {"d"}

Shapes == {1, 2}

InputX ==
  [type |-> "Input", name |-> InputName, bottom |-> <<>>, top |-> <<"x">>,
   param |-> <<>>, blobs |-> <<>>]

\* an Input layer giving x and layers with weights that update x in place
LoadLayerParams ==
  {InputX} \cup
  [type : {WeightType}, name : WeightNames, bottom : {<<"x">>},
   top : {<<"x">>}, param : {<<>>}, blobs : {<<1>>, <<1, 2>>}]

SourceData == "trained"

SourceBlobs == [shape : Shapes, data : {SourceData}]

SourceLayers ==
  [name : SourceNames,
   blobs : {<<>>} \cup {<<b>> : b \in SourceBlobs}
             \cup {<<b, c>> : b \in SourceBlobs, c \in SourceBlobs}]

\* the layer indices a caller passes: the valid ones, one below, one above
Indices == (-1)..Len(layers_)

\* assembly of every description
NextInit ==
  \/ \E layer_param \in LayerParams : InitLayer(layer_param)
  \/ InitFinish

SpecInit == Init /\ [][NextInit]_vars

\* assembly, then any sequence of MarkOutputs and forward calls
Next ==
  \/ \E layer_param \in LayerParams : InitLayer(layer_param)
  \/ InitFinish
  \/ \E outs \in BoundedSeq(Names, MaxOuts) : MarkOutputs(outs)
  \/ \E start \in Indices, end \in Indices : ForwardFromTo(start, end)
  \/ \E start \in Indices : ForwardFrom(start)
  \/ \E end \in Indices : ForwardTo(end)

Spec == Init /\ [][Next]_vars

\* assembly, then any sequence of forward calls
NextForward ==
  \/ \E layer_param \in LayerParams : InitLayer(layer_param)
  \/ InitFinish
  \/ \E start \in Indices, end \in Indices : ForwardFromTo(start, end)
  \/ \E start \in Indices : ForwardFrom(start)
  \/ \E end \in Indices : ForwardTo(end)

SpecForward == Init /\ [][NextForward]_vars

\* the layer names a caller may ask for: the last is the name of no layer
QueryNames == {DefaultName, "d"}

\* the rule no field of which is set
AnyRule ==
  [has_phase |-> FALSE, phase |-> "TRAIN", has_min_level |-> FALSE,
   min_level |-> 0, has_max_level |-> FALSE, max_level |-> 0,
   stage |-> <<>>, not_stage |-> <<>>]

\* the rules of the raw descriptions the filter is explored on
FilterRules ==
  {[AnyRule EXCEPT !.stage = <<"train">>],
   [AnyRule EXCEPT !.not_stage = <<"train">>],
   [AnyRule EXCEPT !.has_min_level = TRUE, !.min_level = 1]}

RuleLists ==
  {<<>>} \cup {<<r>> : r \in FilterRules}
    \cup {p \in FilterRules \X FilterRules : p[1] # p[2]}

RawLayers == [name : {DefaultName}, include : RuleLists, exclude : RuleLists]

FilterStates ==
  {state \in NetStates : state.level \in RuleLevels /\ Len(state.stage) <= 1}

\* every NetState of FilterStates, then FilterNet on every raw description
InitFilter ==
  \E state \in FilterStates : InitWith([state |-> state, layer |-> <<>>])

NextFilter ==
  \/ InitCheck
  \/ \E layer_param \in RawLayers : FilterLayer(layer_param)
  \/ FilterEnd

SpecFilter == InitFilter /\ [][NextFilter]_vars

\* every NetState with every rule, then the evaluation of the rule
InitRule ==
  \E state \in NetStates, rule \in NetStateRules :
    InitWith([state |-> state, layer |-> <<RuleLayer(rule)>>])

NextRule == StateMeetsRuleCall

SpecRule == InitRule /\ [][NextRule]_vars

\* assembly of every description, then any sequence of lookups
NextLookup ==
  \/ NextInit
  \/ \E blob_name \in Names : has_blob(blob_name)
  \/ \E blob_name \in Names : blob_by_name(blob_name)
  \/ \E layer_name \in QueryNames : has_layer(layer_name)
  \/ \E layer_name \in QueryNames : layer_by_name(layer_name)

SpecLookup == Init /\ [][NextLookup]_vars

\* assembly of a net with weights, then any sequence of
\* CopyTrainedLayersFrom calls
NextLoad ==
  \/ \E layer_param \in LoadLayerParams : InitLayer(layer_param)
  \/ InitFinish
  \/ CopyBegin
  \/ \E source_layer \in SourceLayers : CopyLayer(source_layer)
  \/ CopyEnd

SpecLoad == Init /\ [][NextLoad]_vars

\* the explicit names of the learnable blobs of a layer: none, one for the
\* first blob, an empty one for the first and one for the second
ParamNames == {<<>>, <<"w">>, <<"", "w">>}

\* an Input layer giving x and layers that update x in place, without
\* learnable blobs or with two
ParamLayerParams ==
  {InputX} \cup
  {lp \in [type : {WeightType}, name : {InputName, "b"}, bottom : {<<"x">>},
           top : {<<"x">>}, param : ParamNames, blobs : {<<>>, <<1, 2>>}] :
     lp.blobs = <<>> => lp.param = <<>>}

\* assembly of every description of layers with learnable blobs
NextParam ==
  \/ \E layer_param \in ParamLayerParams : InitLayer(layer_param)
  \/ InitFinish

SpecParam == Init /\ [][NextParam]_vars

\* ------------------------------------------------- reading the history
NumLayers == Len(layers_)

BlobIds == 0..(Len(blob_names_) - 1)

\* the layers the last forward call computed, in order
ComputedLayers ==
  LET fw == SelectSeq(trace, LAMBDA e : e.ev = "Forward") IN
  [k \in 1..Len(fw) |-> fw[k].layer]

\* the last forward call was a full pass, forward(0, N-1)
FullPass ==
  /\ pc = "ready"
  /\ ComputedLayers = [k \in 1..NumLayers |-> k - 1]

\* blob b was released at some position of the trace before position p
ReleasedBefore(b, p) ==
  \E q \in 1..(p - 1) : trace[q].ev = "Release" /\ trace[q].blob = b

ReleaseLayers(b) ==
  {trace[q].layer : q \in {q \in 1..Len(trace) :
                             trace[q].ev = "Release" /\ trace[q].blob = b}}

\* held to the end of the net: the life time is the number of layers, as
\* Net::Init sets it for the tops of layer 0 and MarkOutputs for the blobs
\* it is given
Pinned(b) == At(blob_life_time_, b) = HoldLifeTime(layers_)

Readers(b) ==
  {l \in 0..(NumLayers - 1) : b \in Range(At(bottom_id_vecs_, l))}

\* ------------------------------------------------------------------ C1
\* C1: in a full pass forward(0, N-1), when layer j runs the storage of each
\* of its bottoms is allocated, and no earlier layer of the pass has
\* released it.
C1_NoReleaseBeforeRead ==
  FullPass =>
    \A p \in 1..Len(trace) :
      trace[p].ev = "Forward" =>
        /\ trace[p].ok
        /\ \A b \in Range(At(bottom_id_vecs_, trace[p].layer)) :
             ~ReleasedBefore(b, p)

\* a full pass in which a blob that is not pinned is read by two layers and
\* released by the second
C1_Witness ==
  /\ FullPass
  /\ \E b \in BlobIds :
       /\ ~Pinned(b)
       /\ Cardinality(Readers(b)) >= 2
       /\ ReleaseLayers(b) # {}

\* ------------------------------------------------------------------ C2
NetOutput(b) == b \in Range(net_output_blob_indices_)

\* C2 as stated: after a full pass every blob that is not pinned has been
\* released, at a layer no later than its life time.
C2_AllUnpinnedReleased ==
  FullPass =>
    \A b \in BlobIds :
      ~Pinned(b) =>
        /\ ~At(blobs_, b)
        /\ \E l \in ReleaseLayers(b) : l <= At(blob_life_time_, b)

\* C2 amended: after a full pass every blob that is neither pinned nor an
\* output of the net has been released, by the layer whose index is its life
\* time; an output of the net is still allocated.
C2_UnpinnedInnerReleased ==
  FullPass =>
    \A b \in BlobIds :
      /\ (~Pinned(b) /\ ~NetOutput(b)) =>
           /\ ~At(blobs_, b)
           /\ ReleaseLayers(b) = {At(blob_life_time_, b)}
      /\ NetOutput(b) => (At(blobs_, b) /\ ReleaseLayers(b) = {})

\* a full pass that released an inner blob before its last layer ran
C2_Witness ==
  /\ FullPass
  /\ \E b \in BlobIds :
       /\ ~Pinned(b)
       /\ ~NetOutput(b)
       /\ ~At(blobs_, b)
       /\ At(blob_life_time_, b) < NumLayers - 1

\* ------------------------------------------------------------------ C3
\* Input -> x; ReLU x -> x in place; ReLU x -> y
Chain3 ==
  << [type |-> "Input", name |-> DefaultName, bottom |-> <<>>,
      top |-> <<"x">>, param |-> <<>>, blobs |-> <<>>],
     [type |-> "ReLU", name |-> DefaultName, bottom |-> <<"x">>,
      top |-> <<"x">>, param |-> <<>>, blobs |-> <<>>],
     [type |-> "ReLU", name |-> DefaultName, bottom |-> <<"x">>,
      top |-> <<"y">>, param |-> <<>>, blobs |-> <<>>] >>

AllocatedNames == {At(blob_names_, b) : b \in {c \in BlobIds : At(blobs_, c)}}

\* C3 as stated: the chain has 2 blobs, and after a full pass only y is
\* allocated.
C3_OnlyOutputAllocated ==
  (param = Chain3 /\ FullPass) =>
    (Len(blob_names_) = 2 /\ AllocatedNames = {"y"})

\* C3 amended: the chain has 2 blobs, and after a full pass both are
\* allocated: the output y and the input x, which is held; no blob is
\* released.
C3_InputAndOutputAllocated ==
  (param = Chain3 /\ pc = "ready") =>
    /\ Len(blob_names_) = 2
    /\ FullPass =>
         /\ AllocatedNames = {"x", "y"}
         /\ \A p \in 1..Len(trace) : trace[p].ev # "Release"

C3_Witness == param = Chain3 /\ FullPass

\* ------------------------------------------------------------------ C4
\* what each forward call a caller can make in the current state leaves
ForwardResults ==
  {ForwardFromToResult(start, end) : start \in Indices, end \in Indices}
    \cup {ForwardFromResult(start) : start \in Indices}
    \cup {ForwardToResult(end) : end \in Indices}

\* C4: called in any state of an assembled net, a forward call releases no
\* pinned blob: the storage it has stays allocated and the call logs no
\* release of it.
C4_PinnedNeverReleased ==
  pc = "ready" =>
    \A res \in ForwardResults :
      \A b \in BlobIds :
        Pinned(b) =>
          /\ At(blobs_, b) => At(res.blobs, b)
          /\ \A p \in 1..Len(res.trace) :
               ~(res.trace[p].ev = "Release" /\ res.trace[p].blob = b)

\* a forward call has run the last reader of a blob MarkOutputs pinned,
\* which is neither a top of layer 0 nor an output, and did not release it
C4_Witness ==
  /\ pc = "ready"
  /\ \E b \in BlobIds :
       /\ Pinned(b)
       /\ b \notin Range(At(top_id_vecs_, 0))
       /\ ~NetOutput(b)
       /\ At(blobs_, b)
       /\ ReleaseLayers(b) = {}
       /\ \E l \in Readers(b) :
            /\ \A l2 \in Readers(b) : l2 <= l
            /\ l \in Range(ComputedLayers)

\* ------------------------------------------------- reading the description
LayerIds == 0..(Len(param) - 1)

Bottoms(l) == At(param, l).bottom

Tops(l) == At(param, l).top

\* top k of layer l carries the name of bottom k of layer l
SamePosition(l, k) == k < Len(Bottoms(l)) /\ At(Tops(l), k) = At(Bottoms(l), k)

TopPositions == {<<l, k>> \in LayerIds \X (0..(MaxTop - 1)) : k < Len(Tops(l))}

BottomPositions ==
  {<<l, j>> \in LayerIds \X (0..(MaxBottom - 1)) : j < Len(Bottoms(l))}

\* the name of top k of layer l is a top at an earlier place of the description
ProducedEarlier(l, k) ==
  \E <<l2, k2>> \in TopPositions :
    /\ l2 < l \/ (l2 = l /\ k2 < k)
    /\ At(Tops(l2), k2) = At(Tops(l), k)

\* The places of the description in walk order: the bottoms of a layer come
\* before its tops.
BottomPlace(l, j) == l * (MaxBottom + MaxTop) + j

TopPlace(l, k) == l * (MaxBottom + MaxTop) + MaxBottom + k

\* name n is available when bottom j of layer l is resolved: it occurs
\* before, and its last occurrence before is a top
AvailableAt(n, l, j) ==
  \E <<l2, k2>> \in TopPositions :
    /\ At(Tops(l2), k2) = n
    /\ TopPlace(l2, k2) < BottomPlace(l, j)
    /\ \A <<l3, j3>> \in BottomPositions :
         (At(Bottoms(l3), j3) = n /\ BottomPlace(l3, j3) < BottomPlace(l, j))
           => BottomPlace(l3, j3) < TopPlace(l2, k2)

Walked == pc \in {"init", "ready"}

\* ------------------------------------------------------------------ C5
\* C5: in a description walked without failure, a top with the name of the
\* bottom at its own position gets the id of that bottom and no new blob;
\* the blobs are as many as the other tops, and as many as the distinct top
\* names.
C5_InPlacePositional ==
  Walked =>
    /\ \A <<l, k>> \in TopPositions :
         SamePosition(l, k) =>
           At(At(top_id_vecs_, l), k) = At(At(bottom_id_vecs_, l), k)
    /\ Len(blob_names_) =
         Cardinality({p \in TopPositions : ~SamePosition(p[1], p[2])})
    /\ Len(blob_names_) =
         Cardinality({At(Tops(p[1]), p[2]) : p \in TopPositions})

\* an assembled net with a layer whose top 0 is in place and whose top 1 is
\* a new blob
C5_Witness ==
  /\ pc = "ready"
  /\ \E l \in LayerIds :
       /\ Len(Tops(l)) = 2
       /\ SamePosition(l, 0)
       /\ ~SamePosition(l, 1)
       /\ At(At(top_id_vecs_, l), 0) = At(At(bottom_id_vecs_, l), 0)
       /\ At(At(top_id_vecs_, l), 1) = Len(blob_names_) - 1

\* ------------------------------------------------------------------ C6
\* C6: a description with a top whose name was produced earlier, and which
\* is not in place, is not walked: no state without failure holds one.
C6_DuplicateTopFails ==
  Walked =>
    \A <<l, k>> \in TopPositions :
      ProducedEarlier(l, k) => SamePosition(l, k)

\* the walk failed on a top named like a top of an earlier layer
C6_Witness ==
  /\ pc = "fatal"
  /\ err # NoError
  /\ err[1] = DuplicateMessage
  /\ err[2] \in DOMAIN blob_name_to_idx
  /\ err[3] = Len(param)
  /\ err[3] >= 1

\* ------------------------------------------------------------------ C7
\* C7: a description with a bottom whose name is not available at its place
\* is not walked: no state without failure holds one.
C7_UnknownBottomFails ==
  Walked =>
    \A <<l, j>> \in BottomPositions : AvailableAt(At(Bottoms(l), j), l, j)

\* the walk failed on a bottom whose name was produced and consumed before
C7_Witness ==
  /\ pc = "fatal"
  /\ err # NoError
  /\ err[1] = UnknownMessage
  /\ err[2] \in DOMAIN blob_name_to_idx
  /\ err[2] \notin available_blobs
  /\ err[3] = Len(param)

\* ------------------------------------------------------------------ C8
\* C8: no assembled net has a first layer that is not an Input layer.
C8_FirstLayerInput == pc = "ready" => At(param, 0).type = "Input"

\* assembly of a description walked without failure, of two layers or more,
\* failed on the type of its first layer
C8_Witness ==
  /\ pc = "fatal"
  /\ err = <<FirstLayerMessage>>
  /\ Len(param) >= 2
  /\ At(param, 0).type # "Input"

\* ------------------------------------------------------------------ C9
\* C9: called in any state of an assembled net, ForwardFromTo(start, end)
\* with start < 0 or end >= N aborts on a CHECK: no layer is computed, no
\* blob is released, the storage of every blob is as before the call.
C9_RangeErrorAborts ==
  pc = "ready" =>
    \A start \in Indices, end \in Indices :
      (start < 0 \/ end >= NumLayers) =>
        LET res == ForwardFromToResult(start, end) IN
        /\ res.pc = "fatal"
        /\ res.err \in {<<StartMessage>>, <<EndMessage>>}
        /\ res.trace = <<>>
        /\ res.blobs = blobs_

\* a call with an end out of range aborted after an earlier pass had
\* released a blob
C9_Witness ==
  /\ pc = "fatal"
  /\ err = <<EndMessage>>
  /\ trace = <<>>
  /\ \E b \in BlobIds : ~At(blobs_, b)

\* ------------------------------------------------------------------ C10
\* C10: called in any state of an assembled net, ForwardTo(j) leaves what
\* ForwardFromTo(0, j) leaves and ForwardFrom(i) what ForwardFromTo(i, N-1)
\* leaves: the same layers computed in the same order, the same blobs
\* released, the same storage, the same failure.
C10_WrappersEquivalent ==
  pc = "ready" =>
    /\ \A j \in Indices : ForwardToResult(j) = ForwardFromToResult(0, j)
    /\ \A i \in Indices :
         ForwardFromResult(i) = ForwardFromToResult(i, NumLayers - 1)

\* a pass over layers 1 .. N-1 of a net of three layers or more, as
\* ForwardFrom(1) makes it, which released a blob
C10_Witness ==
  /\ pc = "ready"
  /\ NumLayers >= 3
  /\ ComputedLayers = [k \in 1..(NumLayers - 1) |-> k]
  /\ \E p \in 1..Len(trace) : trace[p].ev = "Release"

\* ------------------------------------------------------------------ C11
LayerIdsOf(blobs) == 0..(Len(blobs) - 1)

\* the running CopyTrainedLayersFrom call failed on the blob count of a
\* source layer
CountMismatch ==
  /\ pc = "fatal"
  /\ err # NoError
  /\ err[1] = CountMessage

\* C11 as stated: when a load fails on a source layer whose blob count
\* differs from that of the layer of its name, the learnable blobs of
\* every other layer are as they were when the call began.
C11_OtherLayersUntouched ==
  CountMismatch =>
    \A l \in LayerIdsOf(layer_blobs) :
      l # TargetLayerId(layer_names_, err[2], 0) =>
        At(layer_blobs, l) = At(before, l)

\* ------------------------------------------------------------------ C12
\* a lookup by name aborted on a name the index does not hold
LookupAborted ==
  /\ pc = "fatal"
  /\ err # NoError
  /\ err[1] \in {UnknownBlobMessage, UnknownLayerMessage}

\* C12 as stated: a lookup of a name that is not registered is not fatal:
\* has_blob and has_layer return false, blob_by_name and layer_by_name
\* return and do not abort.
C12_LookupMissNotFatal ==
  /\ ~LookupAborted
  /\ (ret # NoReturn /\ ret.op = "has_blob")
       => (ret.val <=> ret.name \in Range(blob_names_))
  /\ (ret # NoReturn /\ ret.op = "has_layer")
       => (ret.val <=> ret.name \in Range(layer_names_))

\* ------------------------------------------------------------------ C13
\* the result of the last call, which was a call of StateMeetsRule
RuleEvaluated == ret # NoReturn /\ ret.op = "StateMeetsRule"

\* every dimension the rule specifies passes on the state
AllDimensionsPass(state, rule) ==
  /\ ~rule.has_phase \/ rule.phase = state.phase
  /\ ~rule.has_min_level \/ state.level >= rule.min_level
  /\ ~rule.has_max_level \/ state.level <= rule.max_level
  /\ Range(rule.stage) \subseteq Range(state.stage)
  /\ Range(rule.not_stage) \cap Range(state.stage) = {}

\* C13: StateMeetsRule returns true exactly when the phase is unset or
\* equal, the level is within the bounds that are set, every stage of the
\* rule is a stage of the state and no not_stage of the rule is.
C13_RuleSatisfiedIffAllPass ==
  RuleEvaluated => (ret.val <=> AllDimensionsPass(in_param.state, ret.name))

\* a rule that requires the stages train and test and sets the level
\* bounds was evaluated to false on a state of stage test alone, whose
\* level is within the bounds
C13_Witness ==
  /\ RuleEvaluated
  /\ ~ret.val
  /\ ret.name.stage = <<"test", "train">>
  /\ ret.name.has_min_level /\ ret.name.has_max_level
  /\ in_param.state.level = 1 /\ ret.name.min_level = 1
  /\ ret.name.max_level = 1
  /\ in_param.state.stage = <<"test">>
  /\ ~ret.name.has_phase /\ ret.name.not_stage = <<"train">>

\* ------------------------------------------------------------------ C14
\* FilterNet has read the layers of in_param without failure
Filtering == pc \in {"filter", "filtered"}

SomeRulePasses(state, rules) ==
  \E k \in 1..Len(rules) : AllDimensionsPass(state, rules[k])

\* a layer without rules is active; a layer with exclude rules only is
\* active iff none passes; a layer with include rules only is active iff
\* one passes
Active(layer_param) ==
  IF layer_param.include = <<>>
  THEN ~SomeRulePasses(in_param.state, layer_param.exclude)
  ELSE SomeRulePasses(in_param.state, layer_param.include)

\* C14: the layers FilterNet keeps are the active layers of the raw
\* description, in the order of the raw description.
C14_FilterKeepsActiveInOrder ==
  Filtering => filtered_param = SelectSeq(in_param.layer, Active)

\* FilterNet finished a raw description of two layers or more, dropped a
\* layer with include rules none of which passes, dropped a layer with an
\* exclude rule that passes and kept a later layer
C14_Witness ==
  /\ pc = "filtered"
  /\ Len(in_param.layer) >= 2
  /\ Len(filtered_param) >= 1
  /\ filtered_param[Len(filtered_param)] = in_param.layer[Len(in_param.layer)]
  /\ ~Active(At(in_param.layer, 0))
  /\ Len(At(in_param.layer, 0).include) = 2
  /\ Len(filtered_param[Len(filtered_param)].exclude) = 2

\* ------------------------------------------------------------------ C15
\* C15: a raw description with a layer that has include rules and exclude
\* rules is not filtered: no state past the CHECK of FilterNet holds such a
\* layer, and the failure leaves no layer, no blob and no index in the net.
C15_BothRulesFail ==
  /\ Filtering =>
       \A k \in 1..Len(in_param.layer) :
         in_param.layer[k].include = <<>> \/ in_param.layer[k].exclude = <<>>
  /\ (pc = "fatal" /\ err = <<BothMessage>>) =>
       /\ layers_ = <<>>
       /\ blobs_ = <<>>
       /\ blob_names_index_ = EmptyMap
       /\ layer_names_index_ = EmptyMap

\* FilterNet failed on a layer with both kinds of rules after it had read
\* a layer and kept it
C15_Witness ==
  /\ pc = "fatal"
  /\ err = <<BothMessage>>
  /\ Len(in_param.layer) >= 1
  /\ Len(filtered_param) >= 1

\* ------------------------------------------------------------------- C16
\* the learnable blobs of layer l, as the created layer holds them
LearnableCount(l) == Len(At(layer_blobs, l))

\* the number of learnable blobs of the layers before layer l
RECURSIVE CountBefore(_)
CountBefore(l) ==
  IF l = 0 THEN 0 ELSE CountBefore(l - 1) + LearnableCount(l - 1)

\* the name the description gives blob p of layer l, if it gives one
HasExplicitName(l, p) ==
  /\ p < Len(At(param, l).param)
  /\ At(At(param, l).param, p) # ""

\* C16: after assembly the parameter table has as many entries as the
\* layers have learnable blobs in total; blob p of layer l is entry
\* CountBefore(l) + p (layer order, then the order inside the layer); the
\* ids recorded for layer l are exactly these consecutive entries; and the
\* display name of the entry is the explicit name of the description when
\* it is not empty, else "<layer name>_<p>".
C16_ParamTable ==
  pc = "ready" =>
    /\ Len(params_) = CountBefore(NumLayers)
    /\ Len(param_display_names_) = Len(params_)
    /\ Len(param_id_vecs_) = NumLayers
    /\ \A l \in 0..(NumLayers - 1) :
         /\ At(param_id_vecs_, l) =
              [k \in 1..LearnableCount(l) |-> CountBefore(l) + k - 1]
         /\ \A p \in 0..(LearnableCount(l) - 1) :
              LET i == CountBefore(l) + p IN
              /\ At(params_, i) = <<l, p>>
              /\ At(param_display_names_, i) =
                   IF HasExplicitName(l, p)
                   THEN At(At(param, l).param, p)
                   ELSE At(layer_names_, l) \o "_" \o ToString(p)

\* an assembled net where a layer with learnable blobs follows another one
\* and has an empty explicit name for its first blob and one for its second
C16_Witness ==
  /\ pc = "ready"
  /\ \E l \in 1..(NumLayers - 1) :
       /\ CountBefore(l) >= 2
       /\ LearnableCount(l) = 2
       /\ ~HasExplicitName(l, 0)
       /\ HasExplicitName(l, 1)
       /\ At(param_display_names_, CountBefore(l)) = "b_0"
       /\ At(param_display_names_, CountBefore(l) + 1) = "w"

\* ------------------------------------------------------------------- C17
\* the layers a call computed, in the order of its log tr
ComputedIn(tr) ==
  LET fw == SelectSeq(tr, LAMBDA e : e.ev = "Forward") IN
  [k \in 1..Len(fw) |-> fw[k].layer]

\* the bottoms of layer i whose life time has run out at layer i
Expired(i) ==
  {b \in Range(At(bottom_id_vecs_, i)) : At(blob_life_time_, b) <= i}

\* C17: called on an assembled net with 0 <= start and end < N,
\* ForwardFromTo(start, end) returns, and it computes exactly the layers
\* start..end, each once, in increasing order; the blobs released for layer
\* i are the expired bottoms of layer i, released after layer i is computed
\* and before any later layer is; with start > end no layer is computed and
\* no blob is released.
C17_ForwardInOrder ==
  pc = "ready" =>
    \A start \in 0..(NumLayers - 1), end \in 0..(NumLayers - 1) :
      LET res == ForwardFromToResult(start, end)
          tr == res.trace IN
      /\ res.pc = "ready"
      /\ ComputedIn(tr) =
           [k \in 1..(IF start > end THEN 0 ELSE end - start + 1) |->
              start + k - 1]
      /\ \A p \in 1..Len(tr) :
           /\ tr[p].ev \in {"Forward", "Release"}
           /\ \A q \in 1..(p - 1) : tr[q].layer <= tr[p].layer
           /\ tr[p].ev = "Release" =>
                \E q \in 1..(p - 1) :
                  tr[q].ev = "Forward" /\ tr[q].layer = tr[p].layer
      /\ \A i \in start..end :
           {tr[p].blob : p \in {q \in 1..Len(tr) :
                                  tr[q].ev = "Release" /\ tr[q].layer = i}}
             = Expired(i)
      /\ start > end => (tr = <<>> /\ res.blobs = blobs_)

\* a call with start > 0 has computed the layers from start to the last one
\* and has released a blob before the last layer was computed
C17_Witness ==
  /\ pc = "ready"
  /\ NumLayers >= 3
  /\ ComputedLayers = [k \in 1..(NumLayers - 1) |-> k]
  /\ \E p \in 1..Len(trace) :
       trace[p].ev = "Release" /\ trace[p].layer < NumLayers - 1

\* ------------------------------------------------------------------- C18
\* what each forward call with arguments in 0..N-1 leaves
InRangeResults ==
  {ForwardFromToResult(start, end) :
     start \in 0..(NumLayers - 1), end \in 0..(NumLayers - 1)}
    \cup {ForwardFromResult(start) : start \in 0..(NumLayers - 1)}
    \cup {ForwardToResult(end) : end \in 0..(NumLayers - 1)}

\* C18: after assembly and any sequence of forward calls with arguments in
\* range, a further such call computes no layer while the storage of one of
\* its bottoms is released (storage is allocated again when a layer that
\* has the blob as a top is computed).
C18_NoReadOfReleased ==
  pc = "ready" =>
    \A res \in InRangeResults :
      \A p \in 1..Len(res.trace) :
        res.trace[p].ev = "Forward" => res.trace[p].ok

\* ------------------------------------------------------------------- C19
\* the layers that have blob b as a top, new or in place
Producers(b) ==
  {l \in 0..(NumLayers - 1) : b \in Range(At(top_id_vecs_, l))}

\* the layers that have blob b as a top in place: b is their bottom and their
\* top at the same position
InPlaceProducers(b) ==
  {l \in Producers(b) :
     \E k \in 1..Len(At(top_id_vecs_, l)) :
       /\ k <= Len(At(bottom_id_vecs_, l))
       /\ At(top_id_vecs_, l)[k] = b
       /\ At(bottom_id_vecs_, l)[k] = b}

\* C19: after assembly and after any sequence of MarkOutputs calls, the life
\* time of every blob is at most the number of layers, at least the index
\* of every layer that reads the blob, and at least one more than the index
\* of every layer that produces it, as a new blob or in place.
C19_LifeTimeBounds ==
  pc = "ready" =>
    \A b \in BlobIds :
      /\ At(blob_life_time_, b) <= NumLayers
      /\ \A j \in Readers(b) : At(blob_life_time_, b) >= j
      /\ \A k \in Producers(b) : At(blob_life_time_, b) >= k + 1

\* a blob that a layer updates in place and a later layer reads, held by
\* MarkOutputs: it is no top of layer 0 and no top of the last layer
C19_Witness ==
  /\ pc = "ready"
  /\ \E b \in BlobIds :
       /\ \E k \in InPlaceProducers(b) : \E j \in Readers(b) : j > k
       /\ Pinned(b)
       /\ b \notin Range(At(top_id_vecs_, 0))
       /\ b \notin Range(At(top_id_vecs_, NumLayers - 1))

\* ------------------------------------------------------------------- C20
\* the names still available after the last layer: a layer has the name as
\* a top (new or in place) and no later layer has it as a bottom
AvailableAtEnd ==
  {n \in BlobNames :
     \E l \in LayerIds :
       /\ n \in Range(Tops(l))
       /\ \A l2 \in (l + 1)..(NumLayers - 1) : n \notin Range(Bottoms(l2))}

\* C20: after assembly the outputs of the net are exactly the names still
\* available after the last layer, each listed once, each by the id of the
\* blob bound to the name.
C20_OutputsAreAvailableNames ==
  pc = "ready" =>
    /\ {At(blob_names_, At(net_output_blob_indices_, k)) :
          k \in 0..(Len(net_output_blob_indices_) - 1)} = AvailableAtEnd
    /\ Len(net_output_blob_indices_) = Cardinality(AvailableAtEnd)
    /\ \A n \in AvailableAtEnd :
         /\ n \in DOMAIN blob_names_index_
         /\ Cardinality({k \in 0..(Len(net_output_blob_indices_) - 1) :
                           At(net_output_blob_indices_, k) =
                             blob_names_index_[n]}) = 1

\* an assembled net with two blobs and one output: the output was read and
\* updated in place, the other blob was read by a later layer
C20_Witness ==
  /\ pc = "ready"
  /\ Len(blob_names_) = 2
  /\ Len(net_output_blob_indices_) = 1
  /\ LET b == At(net_output_blob_indices_, 0) IN
     /\ InPlaceProducers(b) # {}
     /\ \E c \in BlobIds \ {b} : \E j \in Readers(c) : j > 0

\* ------------------------------------------------------------------- C21
\* a CopyTrainedLayersFrom call is running, or has failed
Loading == before # <<>>

\* the source layer has the name of no layer of the net
Absent(source_layer) == source_layer.name \notin Range(layer_names_)

\* C21: while CopyTrainedLayersFrom runs, a source layer with the name of
\* no layer of the net is read without a failure and without a change of a
\* learnable blob, and the loop goes on; and as long as every source layer
\* the call has read was such a layer, the call has not failed and every
\* learnable blob is what it was when the call began.
C21_AbsentLayerSkipped ==
  /\ pc = "copy" =>
       \A source_layer \in SourceLayers :
         Absent(source_layer) =>
           CopyLayerResult(layer_blobs, source_layer) =
             [blobs |-> layer_blobs, err |-> NoError]
  /\ (Loading /\ source_names \cap Range(layer_names_) = {}) =>
       /\ pc = "copy"
       /\ err = NoError
       /\ layer_blobs = before

\* the running call has read a source layer of a name no layer has, with
\* blobs of its own, and nothing else, on a net with learnable blobs
C21_Witness ==
  /\ pc = "copy"
  /\ source_names = {"d"}
  /\ \E l \in LayerIdsOf(layer_blobs) : At(layer_blobs, l) # <<>>
  /\ layer_blobs = before

\* ------------------------------------------------------------------- C22
\* the layer a source layer of a name of the net is copied to: the first of
\* the name
FirstOfName(name) ==
  CHOOSE l \in LayerIdsOf(layer_names_) :
    /\ At(layer_names_, l) = name
    /\ \A l2 \in LayerIdsOf(layer_names_) :
         At(layer_names_, l2) = name => l <= l2

\* the indices at which the shapes of the target and of the source differ
Mismatches(target_blobs, source_layer) ==
  {j \in 0..(Len(target_blobs) - 1) :
     At(target_blobs, j).shape # At(source_layer.blobs, j).shape}

\* the running CopyTrainedLayersFrom call failed on a shape
ShapeMismatch ==
  /\ pc = "fatal"
  /\ err # NoError
  /\ err[1] = ShapeMessage

\* C22: while CopyTrainedLayersFrom runs, for a source layer with the name
\* and the blob count of a layer of the net: if a shape differs, the call
\* fails naming the source layer and the first index that differs, and the
\* blob at that index and every blob after it in the layer keep shape and
\* data; a blob before that index, and every blob if no shape differs,
\* takes the data of the source and keeps its shape; no other layer
\* changes.  No step of a call changes a shape, and a failed call runs no
\* further source layer.
C22_ShapeMismatchFails ==
  /\ pc = "copy" =>
       \A source_layer \in SourceLayers :
         ~Absent(source_layer) =>
           LET t == FirstOfName(source_layer.name)
               target_blobs == At(layer_blobs, t)
               res == CopyLayerResult(layer_blobs, source_layer)
               mism == Mismatches(target_blobs, source_layer) IN
           Len(target_blobs) = Len(source_layer.blobs) =>
             /\ mism # {} =>
                  /\ res.err # NoError
                  /\ res.err[1] = ShapeMessage
                  /\ res.err[2] = source_layer.name
                  /\ res.err[3] \in mism
                  /\ \A j \in mism : res.err[3] <= j
             /\ mism = {} => res.err = NoError
             /\ \A l \in LayerIdsOf(layer_blobs) \ {t} :
                  At(res.blobs, l) = At(layer_blobs, l)
             /\ Len(At(res.blobs, t)) = Len(target_blobs)
             /\ \A j \in 0..(Len(target_blobs) - 1) :
                  IF \E i \in mism : i <= j
                  THEN At(At(res.blobs, t), j) = At(target_blobs, j)
                  ELSE /\ At(At(res.blobs, t), j).data =
                            At(source_layer.blobs, j).data
                       /\ At(At(res.blobs, t), j).shape =
                            At(target_blobs, j).shape
  /\ Loading =>
       \A l \in LayerIdsOf(layer_blobs) :
         /\ Len(At(layer_blobs, l)) = Len(At(before, l))
         /\ \A j \in 0..(Len(At(layer_blobs, l)) - 1) :
              At(At(layer_blobs, l), j).shape = At(At(before, l), j).shape
  /\ ShapeMismatch =>
       \A source_layer \in SourceLayers : ~ENABLED CopyLayer(source_layer)

\* a call has failed on the second blob of a layer: the first blob holds
\* the data of the source, the second what it held when the call began
C22_Witness ==
  /\ ShapeMismatch
  /\ err[3] = 1
  /\ LET t == FirstOfName(err[2]) IN
     /\ At(At(layer_blobs, t), 0).data = SourceData
     /\ At(At(before, t), 0).data = InitialData
     /\ At(At(layer_blobs, t), 1) = At(At(before, t), 1)

\* ------------------------------------------------------------------- C23
\* the storage of a net no forward call has run on: every blob allocated
FreshBlobs == [k \in 1..Len(blobs_) |-> TRUE]

Fresh == pc = "ready" /\ blobs_ = FreshBlobs

\* ForwardFromTo(start, end) called when the storage is blobs
ForwardFromToOn(blobs, start, end) ==
  IF RangeCheck(start, end, NumLayers) # NoError
  THEN [pc |-> "fatal", blobs |-> blobs, trace |-> <<>>]
  ELSE LET r == ForwardLoop([blobs |-> blobs, trace |-> <<>>], start, end) IN
       [pc |-> "ready", blobs |-> r.blobs, trace |-> r.trace]

\* the blobs a call released, by its log tr
ReleasedIn(tr) ==
  {tr[p].blob : p \in {q \in 1..Len(tr) : tr[q].ev = "Release"}}

\* the blobs without storage
Unallocated(blobs) == {b \in BlobIds : ~At(blobs, b)}

\* C23: on a net no forward call has released a blob of, for every k with
\* 0 <= k < N-1, ForwardFromTo(0, k) followed by ForwardFromTo(k+1, N-1)
\* computes the layers ForwardFromTo(0, N-1) computes, in the same order,
\* releases the same blobs and ends with the same blobs released.
C23_SplitPassEquivalent ==
  Fresh =>
    \A k \in 0..(NumLayers - 2) :
      LET full == ForwardFromToResult(0, NumLayers - 1)
          first == ForwardFromToResult(0, k)
          second == ForwardFromToOn(first.blobs, k + 1, NumLayers - 1) IN
      /\ full.pc = "ready" /\ first.pc = "ready" /\ second.pc = "ready"
      /\ ComputedIn(first.trace \o second.trace) = ComputedIn(full.trace)
      /\ ComputedIn(full.trace) = [l \in 1..NumLayers |-> l - 1]
      /\ ReleasedIn(first.trace) \cup ReleasedIn(second.trace) =
           ReleasedIn(full.trace)
      /\ Unallocated(second.blobs) = Unallocated(full.blobs)

\* the second call of a split pass has run: it computed the layers from
\* k+1 to the last, the first call had released a blob, and the storage is
\* the one a single pass over the net leaves
C23_Witness ==
  /\ pc = "ready"
  /\ \E k \in 0..(NumLayers - 2) :
       /\ ComputedLayers = [l \in 1..(NumLayers - 1 - k) |-> k + l]
       /\ \E b \in BlobIds :
            /\ ~At(blobs_, b)
            /\ At(blob_life_time_, b) <= k
            /\ b \notin ReleasedIn(trace)
       /\ blobs_ = ForwardFromToOn(FreshBlobs, 0, NumLayers - 1).blobs

====
